---------------------------- MODULE Spec2Model ----------------------------
(***************************************************************************)
(* Model of the neotrellis_rgb driver (src/src/lib.rs).                    *)
(*                                                                         *)
(* The driver is single-threaded and synchronous and owns its bus, so one  *)
(* driver call is one action.  A call runs against a bus behaviour chosen  *)
(* by the environment (which transaction fails, with which error, and what *)
(* the device answers to each read) and leaves behind the sequence of bus  *)
(* transactions and delay calls it issued (trace) and what it returned     *)
(* (result).  Every function of the source is an operator of the same name *)
(* that maps the execution state before the function to the one after it.  *)
(***************************************************************************)
EXTENDS Integers, Sequences, FiniteSets, TLC

VARIABLES
    given_address, \* the custom_address argument Neotrellis::new was given
    address,       \* Neotrellis.address
    call,          \* the last driver call and its arguments
    bus,           \* the bus behaviour the last driver call ran against
    trace,         \* bus transactions and delay calls of the last driver call
    result,        \* what the last driver call returned
    event_buffer,  \* the caller's buffer after the last call that was given one
    iter,          \* the live NeotrellisEventIterator, or NoIter
    yielded,       \* the events the live iterator has yielded so far
    last_next      \* what the latest call of next returned

vars == <<given_address, address, call, bus, trace, result, event_buffer, iter,
          yielded, last_next>>

---------------------------------------------------------------------------
(* Bounds of the model *)

\* length of the buffer the caller lends to key_event_iterate
BufLen == 3
\* the bus may fail at any transaction 1..MaxFailAt of a call (0: none fails)
MaxFailAt == 24

(* Values the environment draws from *)
Errors == {"E1", "E2"}                 \* transport errors of the bus (type E)
CustomAddresses == {47}                \* custom_address: Some(0x2F)
CountValues == (0..(BufLen + 1)) \cup {255}   \* answers to the count read
RawBytes == {4, 38, 39, 111}           \* raw event bytes in the FIFO
BufferFills == {0, 255}                \* what the caller's buffer holds before
LedIndices == (0..15) \cup {85, 86}    \* led_index arguments
Bytes == 0..255                        \* the values of a u8
IdValues == Bytes                      \* answers to the hardware id read
\* red, green, blue arguments: each channel over all of u8
Colours ==
    {<<r, 20, 30>> : r \in Bytes} \cup {<<10, g, 30>> : g \in Bytes} \cup
    {<<10, 20, b>> : b \in Bytes} \cup {<<0, 0, 0>>, <<255, 255, 255>>}
UsizeIndices == Bytes \cup {256, 261}  \* usize arguments of neo_trellis_index

---------------------------------------------------------------------------
(* Register map, lib.rs 19-39 *)

STATUS_REGISTER_BASE == 0
KEYPAD_REGISTER_BASE == 16
NEOPIXEL_REGISTER_BASE == 14

StatusRegister_HardwareId == 1

KeypadRegister_Event == 1
KeypadRegister_Count == 4
KeypadRegister_Fifo == 16

NeopixelRegister_Pin == 1
NeopixelRegister_Speed == 2
NeopixelRegister_BufferLength == 3
NeopixelRegister_Buffer == 4
NeopixelRegister_Show == 5

\* custom_address.unwrap_or(0x2E)
DefaultAddress == 46

---------------------------------------------------------------------------
(* Results and execution states *)

NoIter == [live |-> FALSE, index |-> 0, raw_events |-> <<>>]

Ok(v) == [tag |-> "Ok", val |-> v, err |-> "none"]
Err(e) == [tag |-> "Err", val |-> 0, err |-> e]
Panic == [tag |-> "Panic", val |-> 0, err |-> "none"]
NoResult == [tag |-> "None", val |-> 0, err |-> "none"]

\* One entry of the trace: a bus write, a bus read or a call of delay_function.
Ev(kind, addr, bytes, us, err) ==
    [kind |-> kind, addr |-> addr, bytes |-> bytes, us |-> us, err |-> err]

\* The execution state a driver call starts in: nothing issued yet.
Start(addr) ==
    [address |-> addr, trace |-> <<>>, ntx |-> 0, nrd |-> 0, ret |-> Ok(0),
     rbuf |-> <<>>, buf |-> <<>>, iter |-> NoIter]

\* A bus behaviour: transaction number fail_at fails with err (0: none
\* fails); the k-th read of the call is answered with reads[k]; a failed
\* read has written the answer into the buffer or not (dirty); a u8
\* overflow wraps (release build) or panics (debug build).
Bus(fail_at, err, reads, dirty, wrap) ==
    [fail_at |-> fail_at, err |-> err, reads |-> reads, dirty |-> dirty,
     wrap |-> wrap]

Failed(s) == s.ret.tag # "Ok"

---------------------------------------------------------------------------
(* The capabilities the driver consumes *)

\* embedded_hal Write::write(address, bytes)
i2c_write(st, i2c, addr, bytes) ==
    LET n == st.ntx + 1
        e == IF i2c.fail_at = n THEN i2c.err ELSE "none"
    IN  [st EXCEPT !.ntx = n,
                   !.trace = Append(@, Ev("write", addr, bytes, 0, e)),
                   !.ret = IF e = "none" THEN Ok(0) ELSE Err(e)]

\* embedded_hal Read::read(address, buffer): buffer holds the slice's
\* contents before; rbuf is what it holds after.
i2c_read(st, i2c, addr, buffer) ==
    LET n == st.ntx + 1
        k == st.nrd + 1
        e == IF i2c.fail_at = n THEN i2c.err ELSE "none"
        src == IF k <= Len(i2c.reads) THEN i2c.reads[k] ELSE <<>>
        data == [i \in 1..Len(buffer) |-> IF i <= Len(src) THEN src[i] ELSE 0]
        after == IF e = "none" \/ i2c.dirty THEN data ELSE buffer
    IN  [st EXCEPT !.ntx = n, !.nrd = k,
                   !.trace = Append(@, Ev("read", addr, after, 0, e)),
                   !.rbuf = after,
                   !.ret = IF e = "none" THEN Ok(0) ELSE Err(e)]

\* (self.delay_function)(us)
delay_function(st, us) ==
    [st EXCEPT !.trace = Append(@, Ev("delay", 0, <<>>, us, "none"))]

---------------------------------------------------------------------------
(* Index translation and event decoding, lib.rs 71-131 *)

\* neo_trellis_index with blocks of 4 instead of 8
neo_trellis_index_blocks_of_4(index) ==
    ((((index % 256) \div 4) * 4) + ((index % 256) % 4)) % 256

\* (index as u8 / 4) * 8 + (index as u8 % 4), in u8 arithmetic
neo_trellis_index(index) ==
    ((((index % 256) \div 4) * 8) + ((index % 256) % 4)) % 256

\* whether neo_trellis_index overflows u8 (a panic in a debug build)
neo_trellis_index_overflows(index) ==
    (((index % 256) \div 4) * 8) + ((index % 256) % 4) > 255

\* see_saw_index that keeps the blocks of 8
see_saw_index_blocks_of_8(index) ==
    ((index \div 8) * 8) + (index % 8)

\* (index / 8) * 4 + (index % 8)
see_saw_index(index) ==
    ((index \div 8) * 4) + (index % 8)

\* from that takes the event type from bit 1
from_event_type_bit_1(input) ==
    [event_type |-> IF (input \div 2) % 2 = 0 THEN "KeyRelease" ELSE "KeyPress",
     key_index |-> see_saw_index(input \div 4)]

\* from that reports the device address as the key index
from_no_translate(input) ==
    [event_type |-> IF input % 2 = 0 THEN "KeyRelease" ELSE "KeyPress",
     key_index |-> input \div 4]

\* impl From<u8> for NeotrellisEvent
from(input) ==
    [event_type |-> IF input % 2 = 0 THEN "KeyRelease" ELSE "KeyPress",
     key_index |-> see_saw_index(input \div 4)]

---------------------------------------------------------------------------
(* The split phases: one i2c transaction each, lib.rs 198-248, 304-310 *)

hardware_id_write(st, i2c) ==
    i2c_write(st, i2c, st.address,
              <<STATUS_REGISTER_BASE, StatusRegister_HardwareId>>)

\* .map(|_| read_buffer[0])
hardware_id_read(st, i2c) ==
    LET s1 == i2c_read(st, i2c, st.address, <<0>>)
    IN  IF Failed(s1) THEN s1 ELSE [s1 EXCEPT !.ret = Ok(s1.rbuf[1])]

\* key_event_enable that writes the linear index as the key address
key_event_enable_untranslated(st, i2c, key_index) ==
    IF neo_trellis_index_overflows(key_index) /\ ~i2c.wrap
    THEN [st EXCEPT !.ret = Panic]
    ELSE i2c_write(st, i2c, st.address,
                   <<KEYPAD_REGISTER_BASE, KeypadRegister_Event,
                     key_index, 25>>)

key_event_enable(st, i2c, key_index) ==
    IF neo_trellis_index_overflows(key_index) /\ ~i2c.wrap
    THEN [st EXCEPT !.ret = Panic]
    ELSE i2c_write(st, i2c, st.address,
                   <<KEYPAD_REGISTER_BASE, KeypadRegister_Event,
                     neo_trellis_index(key_index), 25>>)

key_event_count_write(st, i2c) ==
    i2c_write(st, i2c, st.address,
              <<KEYPAD_REGISTER_BASE, KeypadRegister_Count>>)

\* key_event_count_read that reads from the default address
key_event_count_read_default_address(st, i2c) ==
    LET s1 == i2c_read(st, i2c, DefaultAddress, <<0>>)
    IN  IF Failed(s1) THEN s1 ELSE [s1 EXCEPT !.ret = Ok(s1.rbuf[1])]

key_event_count_read(st, i2c) ==
    LET s1 == i2c_read(st, i2c, st.address, <<0>>)
    IN  IF Failed(s1) THEN s1 ELSE [s1 EXCEPT !.ret = Ok(s1.rbuf[1])]

key_event_iterate_write(st, i2c) ==
    i2c_write(st, i2c, st.address,
              <<KEYPAD_REGISTER_BASE, KeypadRegister_Fifo>>)

\* key_event_iterate_read that returns an iterator over the whole buffer
key_event_iterate_read_whole_buffer(st, i2c, buffer, count) ==
    IF count > Len(buffer)
    THEN [st EXCEPT !.buf = buffer, !.ret = Panic]
    ELSE LET s1 == i2c_read(st, i2c, st.address, SubSeq(buffer, 1, count))
             after == s1.rbuf \o SubSeq(buffer, count + 1, Len(buffer))
         IN  IF Failed(s1)
             THEN [s1 EXCEPT !.buf = after]
             ELSE [s1 EXCEPT !.buf = after,
                             !.ret = Ok(0),
                             !.iter = [live |-> TRUE, index |-> 0,
                                       raw_events |-> after]]

\* key_event_iterate_read that reads no more bytes than the buffer holds
key_event_iterate_read_clamped(st, i2c, buffer, count) ==
    LET n == IF count > Len(buffer) THEN Len(buffer) ELSE count
        s1 == i2c_read(st, i2c, st.address, SubSeq(buffer, 1, n))
        after == s1.rbuf \o SubSeq(buffer, n + 1, Len(buffer))
    IN  IF Failed(s1)
        THEN [s1 EXCEPT !.buf = after]
        ELSE [s1 EXCEPT !.buf = after,
                        !.ret = Ok(0),
                        !.iter = [live |-> TRUE, index |-> 0,
                                  raw_events |-> SubSeq(after, 1, n)]]

\* &mut buffer[..count as usize] panics, before the read is issued,
\* when count is larger than the buffer.
key_event_iterate_read(st, i2c, buffer, count) ==
    IF count > Len(buffer)
    THEN [st EXCEPT !.buf = buffer, !.ret = Panic]
    ELSE LET s1 == i2c_read(st, i2c, st.address, SubSeq(buffer, 1, count))
             after == s1.rbuf \o SubSeq(buffer, count + 1, Len(buffer))
         IN  IF Failed(s1)
             THEN [s1 EXCEPT !.buf = after]
             ELSE [s1 EXCEPT !.buf = after,
                             !.ret = Ok(0),
                             !.iter = [live |-> TRUE, index |-> 0,
                                       raw_events |-> SubSeq(after, 1, count)]]

\* refresh_leds that sends the show function to the keypad module
refresh_leds_keypad_base(st, i2c) ==
    i2c_write(st, i2c, st.address,
              <<KEYPAD_REGISTER_BASE, NeopixelRegister_Show>>)

refresh_leds(st, i2c) ==
    i2c_write(st, i2c, st.address,
              <<NEOPIXEL_REGISTER_BASE, NeopixelRegister_Show>>)

---------------------------------------------------------------------------
(* LED buffer writes, lib.rs 250-302 *)

enable_leds(st, i2c) ==
    LET s1 == i2c_write(st, i2c, st.address,
                        <<NEOPIXEL_REGISTER_BASE, NeopixelRegister_Speed, 1>>)
    IN  IF Failed(s1) THEN s1 ELSE
    LET s2 == i2c_write(s1, i2c, s1.address,
                        <<NEOPIXEL_REGISTER_BASE, NeopixelRegister_BufferLength,
                          0, 16 * 3>>)
    IN  IF Failed(s2) THEN s2 ELSE
        i2c_write(s2, i2c, s2.address,
                  <<NEOPIXEL_REGISTER_BASE, NeopixelRegister_Pin, 3>>)

\* the clear command one colour byte short: [0; 8 * 3 + 3]
clear_command_short ==
    [i \in 1..(8 * 3 + 3) |->
        IF i = 1 THEN NEOPIXEL_REGISTER_BASE
        ELSE IF i = 2 THEN NeopixelRegister_Buffer ELSE 0]

\* let mut command = [0; 8 * 3 + 4] with command[0], command[1] set
clear_command ==
    [i \in 1..(8 * 3 + 4) |->
        IF i = 1 THEN NEOPIXEL_REGISTER_BASE
        ELSE IF i = 2 THEN NeopixelRegister_Buffer ELSE 0]

\* clear_leds that drops the result of its first write
clear_leds_ignores_error(st, i2c) ==
    LET s1 == i2c_write(st, i2c, st.address, clear_command)
    IN  i2c_write(s1, i2c, s1.address, [clear_command EXCEPT ![4] = 24])

clear_leds(st, i2c) ==
    LET s1 == i2c_write(st, i2c, st.address, clear_command)
    IN  IF Failed(s1) THEN s1 ELSE
        i2c_write(s1, i2c, s1.address, [clear_command EXCEPT ![4] = 24])

\* set_led with the colour payload in the order red, green, blue
set_led_rgb_order(st, i2c, led_index, red, green, blue) ==
    IF 3 * led_index > 255 /\ ~i2c.wrap
    THEN [st EXCEPT !.ret = Panic]
    ELSE i2c_write(st, i2c, st.address,
                   <<NEOPIXEL_REGISTER_BASE, NeopixelRegister_Buffer,
                     0, (3 * led_index) % 256, red, green, blue>>)

\* 3 * led_index is a u8 multiplication
set_led(st, i2c, led_index, red, green, blue) ==
    IF 3 * led_index > 255 /\ ~i2c.wrap
    THEN [st EXCEPT !.ret = Panic]
    ELSE i2c_write(st, i2c, st.address,
                   <<NEOPIXEL_REGISTER_BASE, NeopixelRegister_Buffer,
                     0, (3 * led_index) % 256, green, red, blue>>)

---------------------------------------------------------------------------
(* The combined timed operations, lib.rs 149-196 *)

\* hardware_id that does not wait between the write and the read
hardware_id_no_delay(st, i2c) ==
    LET s1 == hardware_id_write(st, i2c)
    IN  IF Failed(s1) THEN s1 ELSE hardware_id_read(s1, i2c)

hardware_id(st, i2c) ==
    LET s1 == hardware_id_write(st, i2c)
    IN  IF Failed(s1) THEN s1 ELSE
        hardware_id_read(delay_function(s1, 500), i2c)

\* key_event_count with the read issued before the settle delay
key_event_count_read_before_delay(st, i2c) ==
    LET s1 == key_event_count_write(st, i2c)
    IN  IF Failed(s1) THEN s1 ELSE
    LET s2 == key_event_count_read(s1, i2c)
    IN  [delay_function(s2, 500) EXCEPT !.ret = s2.ret]

key_event_count(st, i2c) ==
    LET s1 == key_event_count_write(st, i2c)
    IN  IF Failed(s1) THEN s1 ELSE
        key_event_count_read(delay_function(s1, 500), i2c)

\* key_event_iterate without the early return on a zero count
key_event_iterate_no_zero_check(st, i2c, buffer) ==
    LET s1 == key_event_count(st, i2c)
    IN  IF Failed(s1) THEN [s1 EXCEPT !.buf = buffer] ELSE
    LET s2 == key_event_iterate_write(s1, i2c)
    IN  IF Failed(s2) THEN [s2 EXCEPT !.buf = buffer] ELSE
        key_event_iterate_read(delay_function(s2, 500), i2c, buffer,
                               s1.ret.val)

\* key_event_iterate that on a zero count returns an iterator over the
\* whole buffer
key_event_iterate_zero_whole_buffer(st, i2c, buffer) ==
    LET s1 == key_event_count(st, i2c)
    IN  IF Failed(s1) THEN [s1 EXCEPT !.buf = buffer] ELSE
        IF s1.ret.val = 0
        THEN [s1 EXCEPT !.buf = buffer,
                        !.ret = Ok(0),
                        !.iter = [live |-> TRUE, index |-> 0,
                                  raw_events |-> buffer]]
        ELSE
    LET s2 == key_event_iterate_write(s1, i2c)
    IN  IF Failed(s2) THEN [s2 EXCEPT !.buf = buffer] ELSE
        key_event_iterate_read(delay_function(s2, 500), i2c, buffer,
                               s1.ret.val)

key_event_iterate(st, i2c, buffer) ==
    LET s1 == key_event_count(st, i2c)
    IN  IF Failed(s1) THEN [s1 EXCEPT !.buf = buffer] ELSE
        IF s1.ret.val = 0
        THEN [s1 EXCEPT !.buf = buffer,
                        !.ret = Ok(0),
                        !.iter = [live |-> TRUE, index |-> 0,
                                  raw_events |-> SubSeq(buffer, 1, 0)]]
        ELSE
    LET s2 == key_event_iterate_write(s1, i2c)
    IN  IF Failed(s2) THEN [s2 EXCEPT !.buf = buffer] ELSE
        key_event_iterate_read(delay_function(s2, 500), i2c, buffer,
                               s1.ret.val)

\* for key in 0..16 { self.key_event_enable(key)? }
RECURSIVE enable_keys(_, _, _)
enable_keys(st, i2c, key) ==
    IF key = 16 THEN st
    ELSE LET s1 == key_event_enable(st, i2c, key)
         IN  IF Failed(s1) THEN s1 ELSE enable_keys(s1, i2c, key + 1)

\* initialize with the refresh issued before the 300 us settle delay
initialize_refresh_before_settle(st, i2c) ==
    LET s1 == hardware_id(st, i2c)
    IN  IF Failed(s1) THEN s1 ELSE
        IF s1.ret.val # 85 THEN [s1 EXCEPT !.ret = Panic] ELSE
    LET s2 == enable_keys(s1, i2c, 0)
    IN  IF Failed(s2) THEN s2 ELSE
    LET s3 == enable_leds(s2, i2c)
    IN  IF Failed(s3) THEN s3 ELSE
    LET s4 == clear_leds(s3, i2c)
    IN  IF Failed(s4) THEN s4 ELSE
    LET s5 == refresh_leds(s4, i2c)
    IN  IF Failed(s5) THEN s5 ELSE [delay_function(s5, 300) EXCEPT !.ret = Ok(0)]

\* initialize without the assertion on the hardware id
initialize_unchecked(st, i2c) ==
    LET s1 == hardware_id(st, i2c)
    IN  IF Failed(s1) THEN s1 ELSE
    LET s2 == enable_keys(s1, i2c, 0)
    IN  IF Failed(s2) THEN s2 ELSE
    LET s3 == enable_leds(s2, i2c)
    IN  IF Failed(s3) THEN s3 ELSE
    LET s4 == clear_leds(s3, i2c)
    IN  IF Failed(s4) THEN s4 ELSE
    LET s5 == refresh_leds(delay_function(s4, 300), i2c)
    IN  IF Failed(s5) THEN s5 ELSE [s5 EXCEPT !.ret = Ok(0)]

initialize(st, i2c) ==
    LET s1 == hardware_id(st, i2c)
    IN  IF Failed(s1) THEN s1 ELSE
        IF s1.ret.val # 85 THEN [s1 EXCEPT !.ret = Panic] ELSE
    LET s2 == enable_keys(s1, i2c, 0)
    IN  IF Failed(s2) THEN s2 ELSE
    LET s3 == enable_leds(s2, i2c)
    IN  IF Failed(s3) THEN s3 ELSE
    LET s4 == clear_leds(s3, i2c)
    IN  IF Failed(s4) THEN s4 ELSE
    LET s5 == refresh_leds(delay_function(s4, 300), i2c)
    IN  IF Failed(s5) THEN s5 ELSE [s5 EXCEPT !.ret = Ok(0)]

\* next that starts over once it has reached the end
next_iter_restarts(it) ==
    IF it.index = Len(it.raw_events) THEN [it EXCEPT !.index = 0]
    ELSE [it EXCEPT !.index = @ + 1]

\* Iterator::next of NeotrellisEventIterator: the iterator after the call
next_iter(it) ==
    IF it.index = Len(it.raw_events) THEN it
    ELSE [it EXCEPT !.index = @ + 1]

\* Iterator::next of NeotrellisEventIterator: the value returned
next_item(it) ==
    IF it.index = Len(it.raw_events)
    THEN [tag |-> "None", event_type |-> "none", key_index |-> 0]
    ELSE [tag |-> "Some",
          event_type |-> from(it.raw_events[it.index + 1]).event_type,
          key_index |-> from(it.raw_events[it.index + 1]).key_index]

---------------------------------------------------------------------------
(* The environment: the application's calls and the bus behaviours *)

\* Option<u8> values of custom_address
CustomAddressOptions ==
    {[some |-> FALSE, val |-> 0]} \cup
    {[some |-> TRUE, val |-> a] : a \in CustomAddresses}

\* Neotrellis::new: address: custom_address.unwrap_or(0x2E)
new(custom_address) ==
    IF custom_address.some THEN custom_address.val ELSE DefaultAddress

\* A call and its arguments (0 or <<>> for the arguments it does not take)
Call(op, buffer, count, led_index, red, green, blue) ==
    [op |-> op, buffer |-> buffer, count |-> count, index |-> 0,
     led_index |-> led_index, red |-> red, green |-> green, blue |-> blue]

Call0(op) == Call(op, <<>>, 0, 0, 0, 0, 0)

\* A call of one of the index functions or of the decoder
CallIndex(op, index) == [Call0(op) EXCEPT !.index = index]

\* The bus behaviour of a state in which no call has run
NoBus == Bus(0, "none", <<>>, FALSE, FALSE)

\* The failures a call that issues at most n transactions can meet: none,
\* or transaction k failing with error e.
FailPoints(n) ==
    {<<0, "none">>} \cup
    ((1..(IF n < MaxFailAt THEN n ELSE MaxFailAt)) \X Errors)

\* The buffers the caller lends
Buffers == {[i \in 1..BufLen |-> f] : f \in BufferFills}

\* The answers of the FIFO read for a reported count
FifoAnswers(count) ==
    IF count <= BufLen THEN [1..count -> RawBytes] ELSE {<<>>}

NotCalled == [tag |-> "NotCalled", event_type |-> "none", key_index |-> 0]

\* The application makes one driver call at a time: it takes the result of
\* a call (and drains or drops the event sequence it got) before it makes
\* the next one.  The driver keeps nothing between calls but its address.
CanCall == call.op = "none"

\* The state a driver call c leaves behind when it ends in execution state s
Finish(c, b, s) ==
    /\ call' = c
    /\ bus' = b
    /\ trace' = s.trace
    /\ result' = s.ret
    /\ event_buffer' = s.buf
    /\ iter' = s.iter
    /\ yielded' = <<>>
    /\ last_next' = NotCalled
    /\ UNCHANGED <<given_address, address>>

---------------------------------------------------------------------------
(* Actions: one per public operation *)

Init ==
    /\ given_address \in CustomAddressOptions
    /\ address = new(given_address)
    /\ call = Call0("none")
    /\ bus = NoBus
    /\ trace = <<>>
    /\ result = NoResult
    /\ event_buffer = <<>>
    /\ iter = NoIter
    /\ yielded = <<>>
    /\ last_next = NotCalled

Initialize ==
    /\ CanCall
    /\ \E f \in FailPoints(MaxFailAt), id \in IdValues, wrap \in BOOLEAN :
          LET b == Bus(f[1], f[2], << <<id>> >>, FALSE, wrap)
          IN  Finish(Call0("initialize"), b,
                     initialize(Start(address), b))

HardwareId ==
    /\ CanCall
    /\ \E f \in FailPoints(3), id \in IdValues :
          LET b == Bus(f[1], f[2], << <<id>> >>, FALSE, FALSE)
          IN  Finish(Call0("hardware_id"), b,
                     hardware_id(Start(address), b))

KeyEventCount ==
    /\ CanCall
    /\ \E f \in FailPoints(3), n \in CountValues :
          LET b == Bus(f[1], f[2], << <<n>> >>, FALSE, FALSE)
          IN  Finish(Call0("key_event_count"), b,
                     key_event_count(Start(address), b))

KeyEventIterate ==
    /\ CanCall
    /\ \E f \in FailPoints(5), n \in CountValues, buffer \in Buffers,
          dirty \in BOOLEAN :
          \E data \in FifoAnswers(n) :
             LET b == Bus(f[1], f[2], << <<n>>, data >>, dirty, FALSE)
             IN  Finish(Call("key_event_iterate", buffer, 0, 0, 0, 0, 0), b,
                        key_event_iterate(Start(address), b, buffer))

HardwareIdWrite ==
    /\ CanCall
    /\ \E f \in FailPoints(2) :
          LET b == Bus(f[1], f[2], <<>>, FALSE, FALSE)
          IN  Finish(Call0("hardware_id_write"), b,
                     hardware_id_write(Start(address), b))

HardwareIdRead ==
    /\ CanCall
    /\ \E f \in FailPoints(2), id \in IdValues :
          LET b == Bus(f[1], f[2], << <<id>> >>, FALSE, FALSE)
          IN  Finish(Call0("hardware_id_read"), b,
                     hardware_id_read(Start(address), b))

KeyEventCountWrite ==
    /\ CanCall
    /\ \E f \in FailPoints(2) :
          LET b == Bus(f[1], f[2], <<>>, FALSE, FALSE)
          IN  Finish(Call0("key_event_count_write"), b,
                     key_event_count_write(Start(address), b))

KeyEventCountRead ==
    /\ CanCall
    /\ \E f \in FailPoints(2), n \in CountValues :
          LET b == Bus(f[1], f[2], << <<n>> >>, FALSE, FALSE)
          IN  Finish(Call0("key_event_count_read"), b,
                     key_event_count_read(Start(address), b))

KeyEventIterateWrite ==
    /\ CanCall
    /\ \E f \in FailPoints(2) :
          LET b == Bus(f[1], f[2], <<>>, FALSE, FALSE)
          IN  Finish(Call0("key_event_iterate_write"), b,
                     key_event_iterate_write(Start(address), b))

KeyEventIterateRead ==
    /\ CanCall
    /\ \E f \in FailPoints(2), n \in CountValues, buffer \in Buffers,
          dirty \in BOOLEAN :
          \E data \in FifoAnswers(n) :
             LET b == Bus(f[1], f[2], <<data>>, dirty, FALSE)
             IN  Finish(Call("key_event_iterate_read", buffer, n, 0, 0, 0, 0), b,
                        key_event_iterate_read(Start(address), b, buffer, n))

ClearLeds ==
    /\ CanCall
    /\ \E f \in FailPoints(3) :
          LET b == Bus(f[1], f[2], <<>>, FALSE, FALSE)
          IN  Finish(Call0("clear_leds"), b,
                     clear_leds(Start(address), b))

SetLed ==
    /\ CanCall
    /\ \E f \in FailPoints(2), led_index \in LedIndices, c \in Colours,
          wrap \in BOOLEAN :
          LET b == Bus(f[1], f[2], <<>>, FALSE, wrap)
          IN  Finish(Call("set_led", <<>>, 0, led_index, c[1], c[2], c[3]), b,
                     set_led(Start(address), b, led_index, c[1], c[2], c[3]))

RefreshLeds ==
    /\ CanCall
    /\ \E f \in FailPoints(2) :
          LET b == Bus(f[1], f[2], <<>>, FALSE, FALSE)
          IN  Finish(Call0("refresh_leds"), b,
                     refresh_leds(Start(address), b))

\* Iterator::next on the live event sequence
IterNext ==
    /\ iter.live
    /\ iter' = next_iter(iter)
    /\ last_next' = next_item(iter)
    /\ yielded' = IF next_item(iter).tag = "Some"
                  THEN Append(yielded, [event_type |-> next_item(iter).event_type,
                                        key_index |-> next_item(iter).key_index])
                  ELSE yielded
    /\ UNCHANGED <<given_address, address, call, bus, trace, result, event_buffer>>

\* The application takes the result, drops the event sequence if it holds
\* one, and goes on to its next call.  A panic halts the program.
Resume ==
    /\ call.op # "none"
    /\ result.tag # "Panic"
    /\ call' = Call0("none")
    /\ bus' = NoBus
    /\ trace' = <<>>
    /\ result' = NoResult
    /\ event_buffer' = <<>>
    /\ iter' = NoIter
    /\ yielded' = <<>>
    /\ last_next' = NotCalled
    /\ UNCHANGED <<given_address, address>>

Next ==
    \/ Initialize
    \/ HardwareId
    \/ KeyEventCount
    \/ KeyEventIterate
    \/ HardwareIdWrite
    \/ HardwareIdRead
    \/ KeyEventCountWrite
    \/ KeyEventCountRead
    \/ KeyEventIterateWrite
    \/ KeyEventIterateRead
    \/ ClearLeds
    \/ SetLed
    \/ RefreshLeds
    \/ IterNext
    \/ Resume

Spec == Init /\ [][Next]_vars

---------------------------------------------------------------------------
(* The index functions and the decoder applied to their whole domains *)

\* The value a pure function returns, or the panic of a u8 overflow in a
\* build that checks for it
Computed(v, overflows, wrap) ==
    IF overflows /\ ~wrap THEN Panic ELSE Ok(v)

\* The state an application of a pure function leaves behind
Applied(c, r) ==
    /\ call' = c
    /\ result' = r
    /\ UNCHANGED <<given_address, address, bus, trace, event_buffer, iter,
                   yielded, last_next>>

NeoTrellisIndex ==
    /\ CanCall
    /\ \E index \in UsizeIndices, wrap \in BOOLEAN :
          Applied(CallIndex("neo_trellis_index", index),
                  Computed(neo_trellis_index(index),
                           neo_trellis_index_overflows(index), wrap))

SeeSawIndex ==
    /\ CanCall
    /\ \E index \in Bytes :
          Applied(CallIndex("see_saw_index", index), Ok(see_saw_index(index)))

\* see_saw_index applied to what neo_trellis_index returned
RoundTrip ==
    /\ call.op = "neo_trellis_index"
    /\ result.tag = "Ok"
    /\ Applied(CallIndex("round_trip", call.index),
               Ok(see_saw_index(result.val)))

\* neo_trellis_index applied to what see_saw_index returned
RoundTripBack ==
    /\ call.op = "see_saw_index"
    /\ result.tag = "Ok"
    /\ \E wrap \in BOOLEAN :
          Applied(CallIndex("round_trip_back", call.index),
                  Computed(neo_trellis_index(result.val),
                           neo_trellis_index_overflows(result.val), wrap))

\* NeotrellisEvent::from applied to a raw byte; val is the key_index and
\* last_next holds the whole event
From ==
    /\ CanCall
    /\ \E input \in Bytes :
          /\ call' = CallIndex("from", input)
          /\ result' = Ok(from(input).key_index)
          /\ last_next' = [tag |-> "Some",
                           event_type |-> from(input).event_type,
                           key_index |-> from(input).key_index]
          /\ UNCHANGED <<given_address, address, bus, trace, event_buffer,
                         iter, yielded>>

NextIndex ==
    \/ NeoTrellisIndex
    \/ SeeSawIndex
    \/ RoundTrip
    \/ RoundTripBack
    \/ From
    \/ Resume

SpecIndex == Init /\ [][NextIndex]_vars

---------------------------------------------------------------------------
(* Properties *)

\* What the trace holds for a successful write of bytes, a successful read
\* that returned bytes, and a call of the delay function
IsWrite(e, bytes) == e.kind = "write" /\ e.bytes = bytes /\ e.err = "none"
IsRead(e, bytes) == e.kind = "read" /\ e.bytes = bytes /\ e.err = "none"
IsDelay(e, us) == e.kind = "delay" /\ e.us = us

\* The positions of the trace that hold a bus read
ReadPositions == {i \in 1..Len(trace) : trace[i].kind = "read"}

\* No bus transaction of the last call failed
NoneFailed == \A i \in 1..Len(trace) : trace[i].err = "none"

\* The first n elements of a sequence
Prefix(seq, n) == SubSeq(seq, 1, n)

\* C1: in hardware_id, key_event_count and key_event_iterate every bus read
\* comes directly after one delay(500), which comes directly after the
\* select write of the register that is read: Status/HardwareId [0x00,0x01]
\* in hardware_id, Keypad/Count [0x10,0x04] for the count read and
\* Keypad/Fifo [0x10,0x10] for the second read of key_event_iterate.
C1_SelectOf(op, k) ==
    IF op = "hardware_id" THEN <<0, 1>>
    ELSE IF op = "key_event_count" \/ k = 1 THEN <<16, 4>>
    ELSE <<16, 16>>

C1_SelectDelayRead ==
    call.op \in {"hardware_id", "key_event_count", "key_event_iterate"} =>
        \A i \in ReadPositions :
            /\ i >= 3
            /\ IsDelay(trace[i - 1], 500)
            /\ IsWrite(trace[i - 2],
                       C1_SelectOf(call.op,
                                   Cardinality({j \in ReadPositions : j <= i})))

C1_Witness ==
    /\ call.op = "key_event_iterate"
    /\ result.tag = "Ok"
    /\ Cardinality(ReadPositions) = 2
    /\ trace[Len(trace)].kind = "read"

\* C2: with identity 0x55 and no failing transaction, initialize issues
\* exactly: select [0x00,0x01], delay(500), a 1-byte read, 16 key-enable
\* writes, speed [0x0E,0x02,0x01], buffer length [0x0E,0x03,0,48], pin
\* [0x0E,0x01,3], the clear writes at offset 0 and at offset 24, delay(300),
\* show [0x0E,0x05]; and returns Ok.
C2_InitializeSequence ==
    (/\ call.op = "initialize"
     /\ bus.reads[1] = <<85>>
     /\ NoneFailed)
    => /\ result = Ok(0)
       /\ Len(trace) = 26
       /\ IsWrite(trace[1], <<0, 1>>)
       /\ IsDelay(trace[2], 500)
       /\ IsRead(trace[3], <<85>>)
       /\ \A i \in 4..19 :
             /\ trace[i].kind = "write"
             /\ Len(trace[i].bytes) = 4
             /\ Prefix(trace[i].bytes, 2) = <<16, 1>>
       /\ IsWrite(trace[20], <<14, 2, 1>>)
       /\ IsWrite(trace[21], <<14, 3, 0, 48>>)
       /\ IsWrite(trace[22], <<14, 1, 3>>)
       /\ trace[23].kind = "write"
       /\ Prefix(trace[23].bytes, 4) = <<14, 4, 0, 0>>
       /\ trace[24].kind = "write"
       /\ Prefix(trace[24].bytes, 4) = <<14, 4, 0, 24>>
       /\ IsDelay(trace[25], 300)
       /\ IsWrite(trace[26], <<14, 5>>)

C2_Witness ==
    /\ call.op = "initialize"
    /\ bus.reads[1] = <<85>>
    /\ NoneFailed
    /\ result.tag = "Ok"
    /\ Len(trace) > 3

\* C3: when the identity read returns a byte other than 0x55, initialize
\* panics (it returns no error value) and the read is its last act on the
\* bus: no key-enable write, no LED write, no clear, no refresh follows.
C3_IdentityMismatchIsFatal ==
    (/\ call.op = "initialize"
     /\ \E i \in ReadPositions : trace[i].err = "none" /\ trace[i].bytes # <<85>>)
    => /\ result = Panic
       /\ Len(trace) = 3
       /\ trace[3].kind = "read"
       /\ \A i \in 1..Len(trace) : trace[i].kind = "write" => i = 1

C3_Witness ==
    /\ call.op = "initialize"
    /\ result.tag = "Panic"
    /\ Len(trace) = 3
    /\ IsRead(trace[3], <<0>>)

\* C4: in initialize, hardware_id, key_event_count, key_event_iterate and
\* clear_leds a failed bus transaction is the last entry of the trace (no
\* transaction and no delay follows it, it is not issued again) and the
\* call returns the error the bus reported; a call returns an error only
\* when its last transaction failed with it.
C4_Composite ==
    {"initialize", "hardware_id", "key_event_count", "key_event_iterate",
     "clear_leds"}

C4_ErrorAborts ==
    call.op \in C4_Composite =>
        /\ \A i \in 1..Len(trace) :
              trace[i].err # "none" =>
                  /\ i = Len(trace)
                  /\ result = Err(trace[i].err)
        /\ result.tag = "Err" =>
              /\ Len(trace) > 0
              /\ trace[Len(trace)].err = result.err

C4_Witness ==
    /\ call.op = "initialize"
    /\ result = Err("E2")
    /\ Len(trace) = 26
    /\ trace[26].err = "E2"

\* The count the device reported to key_event_iterate: the answer to the
\* count read, when the count select write and the count read succeeded
CountReported(n) ==
    /\ call.op = "key_event_iterate"
    /\ Len(trace) >= 3
    /\ IsRead(trace[3], <<n>>)
    /\ bus.reads[1] = <<n>>

\* C5: key_event_iterate with reported count N > 0, a buffer of at least N
\* bytes and no failing transaction reads exactly N bytes, into the first
\* N bytes of the buffer; the sequence yields the events decoded from
\* buffer[0..N-1] in order, never more than N; and next signals the end
\* once N events are out, whatever the capacity of the buffer.
C5_ReadsAndYieldsN ==
    \A N \in 1..255 :
        (/\ CountReported(N)
         /\ N <= Len(call.buffer)
         /\ NoneFailed)
        => /\ result.tag = "Ok"
           /\ Cardinality(ReadPositions) = 2
           /\ trace[Len(trace)].kind = "read"
           /\ Len(trace[Len(trace)].bytes) = N
           /\ trace[Len(trace)].bytes = bus.reads[2]
           /\ event_buffer =
                 bus.reads[2] \o SubSeq(call.buffer, N + 1, Len(call.buffer))
           /\ iter.live
           /\ Len(yielded) <= N
           /\ \A k \in 1..Len(yielded) : yielded[k] = from(event_buffer[k])
           /\ last_next.tag = "None" => Len(yielded) = N
           /\ last_next.tag = "Some" =>
                 /\ Len(yielded) > 0
                 /\ yielded[Len(yielded)].key_index = last_next.key_index
                 /\ yielded[Len(yielded)].event_type = last_next.event_type
           /\ Len(yielded) = N => next_item(iter).tag = "None"
           /\ Len(yielded) < N => next_item(iter).tag = "Some"

C5_Witness ==
    /\ CountReported(2)
    /\ Len(call.buffer) > 2
    /\ result.tag = "Ok"
    /\ Len(yielded) = 2
    /\ yielded[1] # yielded[2]
    /\ last_next.tag = "None"

\* C6 as claimed: key_event_iterate with reported count 0 performs no read
\* transaction at all and yields an empty sequence.
C6_NoReadAtAll ==
    CountReported(0) =>
        /\ ReadPositions = {}
        /\ iter.live
        /\ iter.raw_events = <<>>

\* C6 amended: key_event_iterate with reported count 0 performs one read
\* transaction, the 1-byte count read that reported the 0, and no other (no
\* FIFO read), and yields an empty sequence.
C6_NoFifoRead ==
    CountReported(0) =>
        /\ ReadPositions = {3}
        /\ Len(trace[3].bytes) = 1
        /\ result.tag = "Ok"
        /\ iter.live
        /\ iter.raw_events = <<>>
        /\ yielded = <<>>
        /\ last_next.tag # "Some"

C6_Witness ==
    /\ CountReported(0)
    /\ result.tag = "Ok"
    /\ Cardinality(ReadPositions) = 1
    /\ last_next.tag = "None"

\* C7: when the count read returns 0, key_event_iterate issues nothing after
\* the count read (no Keypad/Fifo select write, no delay, no FIFO read),
\* leaves the caller's buffer as it was, and returns a sequence whose first
\* next signals the end.
C7_ZeroCountSkipsFifo ==
    CountReported(0) =>
        /\ Len(trace) = 3
        /\ IsWrite(trace[1], <<16, 4>>)
        /\ IsDelay(trace[2], 500)
        /\ \A i \in 1..Len(trace) : trace[i].bytes # <<16, 16>>
        /\ event_buffer = call.buffer
        /\ result.tag = "Ok"
        /\ iter.live
        /\ next_item(iter).tag = "None"
        /\ yielded = <<>>
        /\ last_next.tag \in {"NotCalled", "None"}

C7_Witness ==
    /\ CountReported(0)
    /\ Len(trace) = 3
    /\ event_buffer = [i \in 1..BufLen |-> 255]
    /\ iter.live
    /\ last_next.tag = "None"
    /\ yielded = <<>>

\* C8: set_led(index, r, g, b) with index in 0..15 emits exactly one bus
\* write, the 7 bytes [0x0E, 0x04, 0, 3*index, g, r, b].
C8_SetLedCommand ==
    (call.op = "set_led" /\ call.led_index \in 0..15) =>
        /\ Len(trace) = 1
        /\ trace[1].kind = "write"
        /\ trace[1].bytes = <<14, 4, 0, 3 * call.led_index,
                              call.green, call.red, call.blue>>
        /\ 3 * call.led_index <= 255
        /\ result.tag \in {"Ok", "Err"}

C8_Witness ==
    /\ call.op = "set_led"
    /\ call.led_index = 5 /\ call.red = 10 /\ call.green = 20 /\ call.blue = 30
    /\ result.tag = "Ok"
    /\ trace = <<Ev("write", address, <<14, 4, 0, 15, 20, 10, 30>>, 0, "none")>>

\* The offset field (bytes 3 and 4, big endian) and the colour bytes (byte 5
\* on) of a Neopixel Buffer write
OffsetOf(bytes) == bytes[3] * 256 + bytes[4]
ColoursOf(bytes) == SubSeq(bytes, 5, Len(bytes))

\* C9: when neither write fails, clear_leds emits exactly two bus writes,
\* both to Neopixel/Buffer [0x0E, 0x04], the first at offset 0 and the
\* second at offset 24, all colour bytes zero; the first ends where the
\* second starts and the second ends at 48, so they cover offsets 0..47
\* once each.
C9_ClearLedsTwoWrites ==
    (call.op = "clear_leds" /\ NoneFailed) =>
        /\ result = Ok(0)
        /\ Len(trace) = 2
        /\ \A i \in 1..2 :
              /\ trace[i].kind = "write"
              /\ Prefix(trace[i].bytes, 2) = <<14, 4>>
              /\ \A k \in 1..Len(ColoursOf(trace[i].bytes)) :
                    ColoursOf(trace[i].bytes)[k] = 0
        /\ OffsetOf(trace[1].bytes) = 0
        /\ OffsetOf(trace[2].bytes) = 24
        /\ OffsetOf(trace[1].bytes) + Len(ColoursOf(trace[1].bytes))
              = OffsetOf(trace[2].bytes)
        /\ OffsetOf(trace[2].bytes) + Len(ColoursOf(trace[2].bytes)) = 48

C9_Witness ==
    /\ call.op = "clear_leds"
    /\ result.tag = "Ok"
    /\ Len(trace) = 2
    /\ Len(trace[2].bytes) = 28

\* C10: for every linear index i in 0..15, neo_trellis_index(i) is computed
\* without overflow and see_saw_index(neo_trellis_index(i)) = i.
C10_RoundTrip ==
    /\ (call.op = "neo_trellis_index" /\ call.index \in 0..15) =>
          result.tag = "Ok"
    /\ (call.op = "round_trip" /\ call.index \in 0..15) =>
          result = Ok(call.index)

C10_Witness ==
    /\ call.op = "round_trip"
    /\ call.index = 15
    /\ result = Ok(15)

\* The 16 addresses the device knows its keys by
DeviceAddresses ==
    {0, 1, 2, 3, 8, 9, 10, 11, 16, 17, 18, 19, 24, 25, 26, 27}

\* C11: neo_trellis_index maps every index in 0..15 without overflow to one
\* of the 16 device addresses, and distinct indices to distinct addresses
\* (see_saw_index gives the index back); see_saw_index maps each of the 16
\* device addresses d to a value in 0..15 and neo_trellis_index maps that
\* value back to d, so every device address is reached.
C11_Bijection ==
    /\ (call.op = "neo_trellis_index" /\ call.index \in 0..15) =>
          /\ result.tag = "Ok"
          /\ result.val \in DeviceAddresses
    /\ (call.op = "round_trip" /\ call.index \in 0..15) =>
          result = Ok(call.index)
    /\ (call.op = "see_saw_index" /\ call.index \in DeviceAddresses) =>
          /\ result.tag = "Ok"
          /\ result.val \in 0..15
    /\ (call.op = "round_trip_back" /\ call.index \in DeviceAddresses) =>
          result = Ok(call.index)

C11_Witness ==
    /\ call.op = "round_trip_back"
    /\ call.index = 27
    /\ result = Ok(27)

\* C12: for every raw byte in 0..255 the decoded event has its key_index
\* in 0..15.
C12_KeyIndexInRange ==
    call.op = "from" =>
        /\ result.tag = "Ok"
        /\ result.val \in 0..15

\* The lowest bit of a byte
Bit0(b) == b - (2 * (b \div 2))

\* C13: for every raw byte in 0..255 the decoded event is a KeyPress if
\* bit 0 of the byte is 1 and a KeyRelease if it is 0, whatever the other
\* bits are.
C13_KindIsBit0 ==
    call.op = "from" =>
        /\ last_next.tag = "Some"
        /\ (last_next.event_type = "KeyPress") <=> (Bit0(call.index) = 1)
        /\ (last_next.event_type = "KeyRelease") <=> (Bit0(call.index) = 0)

C13_Witness ==
    /\ call.op = "from"
    /\ call.index = 39
    /\ last_next.tag = "Some"
    /\ last_next.event_type = "KeyPress"

\* C14: the key_index of a decoded byte is see_saw_index of the byte
\* shifted right by 2; when the byte is (neo_trellis_index(i) << 2) | low
\* for a key i in 0..15 and any two low bits, the key_index is i.
C14_DecodeInvertsAddressing ==
    call.op = "from" =>
        /\ result = Ok(see_saw_index(call.index \div 4))
        /\ last_next.key_index = result.val
        /\ \A i \in 0..15, low \in 0..3 :
              call.index = (neo_trellis_index(i) * 4) + low =>
                  result.val = i
        /\ call.index = 4 => result.val = see_saw_index(1)

C14_Witness ==
    /\ call.op = "from"
    /\ call.index = 111
    /\ result = Ok(15)
    /\ last_next.key_index = 15

\* The positions of the trace that reach the keypad module of the device:
\* a write whose first byte is the keypad base, or any read (a read
\* returns, and a FIFO read consumes, what the last select chose)
KeypadPositions ==
    {i \in 1..Len(trace) :
        \/ trace[i].kind = "read"
        \/ /\ trace[i].kind = "write"
           /\ Len(trace[i].bytes) > 0
           /\ trace[i].bytes[1] = KEYPAD_REGISTER_BASE}

\* C15: refresh_leds issues exactly one bus transaction, a write of
\* [0x0E, 0x05], no read and no delay, whether the write succeeds or not;
\* nothing it sends reaches the keypad module, so the device's pending
\* events are left as they were; the result is that of the write.
C15_RefreshLedsOneWrite ==
    call.op = "refresh_leds" =>
        /\ Len(trace) = 1
        /\ trace[1].kind = "write"
        /\ trace[1].bytes = <<14, 5>>
        /\ trace[1].addr = address
        /\ ReadPositions = {}
        /\ \A i \in 1..Len(trace) : trace[i].kind # "delay"
        /\ KeypadPositions = {}
        /\ result = IF trace[1].err = "none" THEN Ok(0) ELSE Err(trace[1].err)
        /\ ~iter.live

C15_Witness ==
    /\ call.op = "refresh_leds"
    /\ result = Ok(0)
    /\ trace = <<Ev("write", address, <<14, 5>>, 0, "none")>>

\* Every bus write and read of the current call went to the address the
\* driver was constructed with
AddressedAsConstructed ==
    /\ address = IF given_address.some THEN given_address.val ELSE 46
    /\ \A i \in 1..Len(trace) :
          trace[i].kind \in {"write", "read"} => trace[i].addr = address

\* C16: in every state, after any sequence of driver calls, the stored
\* address is the custom address given to new, or 0x2E when none was
\* given, and every bus write and read was issued to it; no step changes
\* the stored address.
C16_AddressFixedAtConstruction ==
    /\ []AddressedAsConstructed
    /\ [][address' = address /\ given_address' = given_address]_vars

C16_Witness ==
    /\ given_address.some
    /\ address = 47
    /\ call.op = "key_event_iterate"
    /\ result.tag = "Ok"
    /\ Len(trace) = 6
    /\ trace[3].kind = "read" /\ trace[3].addr = 47
    /\ trace[6].kind = "read" /\ trace[6].addr = 47

\* The device addresses of the keys 0..15, in linear key order
KeyAddresses ==
    <<0, 1, 2, 3, 8, 9, 10, 11, 16, 17, 18, 19, 24, 25, 26, 27>>

\* The positions of the trace that hold a key-enable write
EnablePositions ==
    {i \in 1..Len(trace) :
        /\ trace[i].kind = "write"
        /\ Len(trace[i].bytes) > 0
        /\ trace[i].bytes[1] = KEYPAD_REGISTER_BASE}

\* C17: once initialize has read the identity 0x55, its key-enable writes
\* are the transactions that follow, in linear key order: the k-th (k from
\* 0) is exactly [0x10, 0x01, neo_trellis_index(k), 0b00011001], the
\* address bytes written are pairwise distinct, the first failing write is
\* the last, and when none fails all 16 are issued.
C17_KeyEnableWrites ==
    (/\ call.op = "initialize"
     /\ Len(trace) >= 3
     /\ IsRead(trace[3], <<85>>))
    => /\ \A i \in 4..Len(trace) :
             i <= 19 =>
                /\ trace[i].kind = "write"
                /\ trace[i].bytes = <<16, 1, KeyAddresses[i - 3], 25>>
                /\ trace[i].bytes[3] = neo_trellis_index(i - 4)
                /\ trace[i].err # "none" => Len(trace) = i
       /\ EnablePositions = {i \in 4..Len(trace) : i <= 19}
       /\ \A i, j \in EnablePositions :
             trace[i].bytes[3] = trace[j].bytes[3] => i = j
       /\ NoneFailed => EnablePositions = 4..19

C17_Witness ==
    /\ call.op = "initialize"
    /\ result = Ok(0)
    /\ Len(trace) = 26
    /\ IsWrite(trace[4], <<16, 1, 0, 25>>)
    /\ IsWrite(trace[8], <<16, 1, 8, 25>>)
    /\ IsWrite(trace[19], <<16, 1, 27, 25>>)

\* The bus as a call meets it that starts after ntx transactions, nrd of
\* them reads, of the recorded bus behaviour have been used up
Later(b, ntx, nrd) ==
    [b EXCEPT !.fail_at = IF @ > ntx THEN @ - ntx ELSE 0,
              !.reads = SubSeq(@, nrd + 1, Len(@))]

\* The trace and the outcome of: the call that ended in w; when it did not
\* fail, delay(500) and the call that ended in r
WriteDelayRead(w, r) ==
    IF Failed(w) THEN w
    ELSE [r EXCEPT !.trace = w.trace \o <<Ev("delay", 0, <<>>, 500, "none")>>
                                      \o r.trace]

\* key_event_count_write; delay(500); key_event_count_read, each called on
\* its own
CountPhases ==
    WriteDelayRead(key_event_count_write(Start(address), bus),
                   key_event_count_read(Start(address), Later(bus, 1, 0)))

\* key_event_count; when it reports a count other than 0:
\* key_event_iterate_write; delay(500); key_event_iterate_read(buffer,
\* count), each called on its own; buf is the caller's buffer, which only
\* key_event_iterate_read is handed
IteratePhases ==
    LET c == CountPhases
        p == WriteDelayRead(
                 key_event_iterate_write(Start(address), Later(bus, 2, 1)),
                 key_event_iterate_read(Start(address), Later(bus, 3, 1),
                                        call.buffer, c.ret.val))
    IN  IF Failed(c) THEN [c EXCEPT !.buf = call.buffer]
        ELSE [p EXCEPT !.trace = c.trace \o p.trace,
                       !.buf = IF Len(p.trace) = 1 THEN call.buffer ELSE @]

\* A combined timed operation leaves the trace and the result of its split
\* phases called one after the other around delay(500)
CombinedIsComposition ==
    /\ call.op = "hardware_id" =>
          LET p == WriteDelayRead(
                       hardware_id_write(Start(address), bus),
                       hardware_id_read(Start(address), Later(bus, 1, 0)))
          IN  trace = p.trace /\ result = p.ret
    /\ call.op = "key_event_count" =>
          trace = CountPhases.trace /\ result = CountPhases.ret
    /\ (/\ call.op = "key_event_iterate"
        /\ ~(Len(trace) >= 3 /\ IsRead(trace[3], <<0>>))) =>
          /\ trace = IteratePhases.trace
          /\ result = IteratePhases.ret
          /\ iter.live = IteratePhases.iter.live
          /\ iter.raw_events = IteratePhases.iter.raw_events
          /\ last_next = NotCalled => iter = IteratePhases.iter
          /\ event_buffer = IteratePhases.buf

SplitPhases ==
    {"hardware_id_write", "hardware_id_read", "key_event_count_write",
     "key_event_count_read", "key_event_iterate_write",
     "key_event_iterate_read"}

\* A split phase has issued exactly one bus transaction and no delay
OneTransaction ==
    /\ Len(trace) = 1
    /\ trace[1].kind =
          IF call.op \in {"hardware_id_read", "key_event_count_read",
                          "key_event_iterate_read"}
          THEN "read" ELSE "write"

\* C18 as stated: each combined timed operation is the composition of its
\* split phases around delay(500), and every split phase issues exactly
\* one bus transaction and no delay.
C18_EverySplitPhaseOneTransaction ==
    /\ CombinedIsComposition
    /\ call.op \in SplitPhases => OneTransaction

\* C18: each combined timed operation is the composition of its split
\* phases around delay(500); a split phase never calls the delay function
\* and issues exactly one bus transaction, except key_event_iterate_read
\* with a count larger than the buffer, which panics having issued none.
C18_CombinedIsComposition ==
    /\ CombinedIsComposition
    /\ call.op \in SplitPhases =>
          IF call.op = "key_event_iterate_read" /\ call.count > Len(call.buffer)
          THEN trace = <<>> /\ result = Panic
          ELSE OneTransaction

C18_Witness ==
    /\ call.op = "key_event_iterate"
    /\ result.tag = "Ok"
    /\ Len(trace) = 6
    /\ trace = IteratePhases.trace
    /\ IsRead(trace[6], <<4, 111, 39>>)
    /\ iter.live

CursorInRange ==
    iter.live => iter.index \in 0..Len(iter.raw_events)

\* What a step does to an event sequence that is live before and after it
NextStep ==
    (iter.live /\ iter'.live) =>
        /\ iter'.raw_events = iter.raw_events
        /\ event_buffer' = event_buffer
        /\ iter'.index >= iter.index
        /\ (iter' # iter \/ last_next' # last_next) =>
              last_next'.tag \in {"Some", "None"}
        /\ (last_next'.tag = "Some" /\ yielded' # yielded) =>
              /\ iter.index < Len(iter.raw_events)
              /\ iter'.index = iter.index + 1
              /\ last_next'.key_index =
                    see_saw_index(iter.raw_events[iter.index + 1] \div 4)
              /\ Len(yielded') = iter'.index
        /\ yielded' = yielded =>
              /\ iter'.index = iter.index
              /\ iter.index = Len(iter.raw_events)
              /\ last_next' # last_next => last_next'.tag = "None"
        /\ last_next.tag = "None" =>
              /\ last_next'.tag = "None"
              /\ iter' = iter

\* C20: the cursor of an event sequence over N bytes stays within 0..N;
\* a call of next that yields an event reads the byte at the cursor, which
\* is below N, and advances the cursor by exactly one; a call that yields
\* none leaves the cursor at N; next never changes the bytes; once next
\* has signalled the end every later call signals it again and the cursor
\* stays where it is.
C20_SingleForwardPass ==
    /\ []CursorInRange
    /\ [][NextStep]_vars

C20_Witness ==
    /\ iter.live
    /\ Len(iter.raw_events) = 3
    /\ iter.index = 3
    /\ Len(yielded) = 3
    /\ last_next.tag = "None"

=============================================================================
